---- MODULE Spec2Model ----
(***************************************************************************)
(* Model of the Nexus-Mind query pipeline (Coordinator, Dispatcher,        *)
(* Specialist, Auditor) and of the per-agent retrieval store               *)
(* (VectorStoreManager over ChromaDB collections).                         *)
(*                                                                         *)
(* The specifications share the state (FileSpec, for the file handlers,    *)
(* ChatSpec, for the chat endpoint, and LiveSpec, Spec with progress, are  *)
(* introduced further down):                                               *)
(*   StoreSpec  the VectorStoreManager API called directly, in any order   *)
(*              and on any collection (ingest_file, delete_file,           *)
(*              get_retriever + similarity search);                        *)
(*   Spec       process_query run stage by stage for several queries at    *)
(*              once, on a roster that agent deletions shrink meanwhile    *)
(*              and on collections filled by earlier uploads.              *)
(***************************************************************************)
EXTENDS Integers, Sequences, FiniteSets, TLC

VARIABLES
    agents,     \* rows of the agents table: the set of agent ids (the roster)
    files,      \* rows of the files table: records [id, agent_id, name, filepath]
    disk,       \* file paths present under data/uploads
    chroma,     \* ChromaDB: collection name -> set of stored chunks
    inserted,   \* history: collection name -> file id -> chunks added for it since its last delete_file
    purged,     \* history: the last <<collection name, file id>> whose chunks a delete_file removed, until ingested again
    storeCall,  \* history: the last call made on a VectorStoreManager and what it returned
    pc,         \* per query: where process_query stands
    routing,    \* per query: the RoutingDecision held by process_query
    draft,      \* per query: the AgentResponse held by process_query
    audit,      \* per query: the AuditResult held by process_query
    result,     \* per query: what process_query returned / raised
    calls,      \* history, per query: the stages invoked, in order
    running,    \* history, per query: the stages invoked that have not returned or raised
    retrieved,  \* history, per query: the chunks the Specialist's retriever returned
    roster,     \* history, per query: the agents route_query read from the agents table
    directive,  \* history, per query: the system prompt the Specialist built its chain with
    auditRequest, \* history, per query: the variables the Auditor filled its prompt with
    chat,       \* per chat request: where the chat handler stands, and its answer
    sessions,   \* rows of the chat_sessions table: the set of session ids
    messages,   \* rows of the chat_messages table
    coordinator, \* per server process: the module's global coordinator (0 for None)
    constructed, \* history, per server process: how many Coordinators were constructed
    upload,     \* per upload request: where upload_file_to_agent stands, and its answer
    deletion    \* per delete request: where delete_agent_file stands, and its answer

vars == <<agents, files, disk, chroma, inserted, purged, storeCall,
          pc, routing, draft, audit, result, calls, running, retrieved, roster,
          directive, auditRequest, upload, deletion,
          chat, sessions, messages, coordinator, constructed>>

storeVars == <<chroma, inserted, purged, storeCall>>
dbVars    == <<agents, files, disk>>
queryVars == <<pc, routing, draft, audit, result, calls, running, retrieved, roster,
               directive, auditRequest>>
handlerVars == <<upload, deletion>>
chatVars == <<chat, sessions, messages, coordinator, constructed>>

(***************************************************************************)
(* Values                                                                  *)
(***************************************************************************)

\* Python's None, and the values an `if x:` test takes for false.
NoneVal == "<none>"
Falsy   == {NoneVal, ""}

\* Agent ids (str(uuid4()) in create_agent) and the names stored with them.
AgentIds == {"h1", "h2"}

AgentNameOf(a) == IF a = "h1" THEN "HR" ELSE "Tech"

\* What a caller can hand to VectorStoreManager(agent_id=...).
StoreAgentArgs == AgentIds \cup {NoneVal}

\* Bounds of the model.
MaxChunks    == 2   \* chunks the splitter makes of one file: 1..MaxChunks
MaxStored    == 4   \* chunks held by ChromaDB, all collections together

\* File identifiers (str(uuid4()) in upload_file_to_agent).
FileIds == {"F1", "F2"}

\* search_kwargs={"k": 3}
RetrieverK == 3

UPLOAD_DIR == "data/uploads"

(***************************************************************************)
(* The retrieval store: VectorStoreManager                                 *)
(***************************************************************************)

\* Faulty variant of CollectionName: the agent id is left out of the name.
CollectionName_WithoutId(agent_id) ==
    IF agent_id \in Falsy THEN "nexus_mind_docs" ELSE "agent_"

\* self.collection_name, fixed in __init__ from agent_id.
CollectionName(agent_id) ==
    IF agent_id \in Falsy THEN "nexus_mind_docs" ELSE "agent_" \o agent_id

\* Every collection a store instance of the model can be bound to.
CollectionNames == {CollectionName(a) : a \in StoreAgentArgs}

\* os.path.basename of a path built as  dir "/" base.
Basename(path) == path.base

\* A file path: directory and last component.
Path(dir, base) == [dir |-> dir, base |-> base]

\* One stored document: ChromaDB's id, the metadata TextLoader and ingest_file
\* give it, and (history, not stored) the agent_id of the instance that added it.
Chunk(id, path, file_id, owner) ==
    [id          |-> id,
     source      |-> path,
     file_id     |-> IF file_id \in Falsy THEN NoneVal ELSE file_id,
     source_file |-> IF file_id \in Falsy THEN NoneVal ELSE Basename(path),
     owner       |-> owner]

\* The ids ChromaDB gives new documents (uuid4 in add_documents) are ids no
\* document of the collection has. A document's id is written <<tag, k>>: its
\* file_id tag and the least k that makes the id new.
RECURSIVE FreshIndexes(_, _, _)
FreshIndexes(used, n, from) ==
    IF n = 0 THEN {}
    ELSE IF from \in used THEN FreshIndexes(used, n, from + 1)
    ELSE {from} \cup FreshIndexes(used, n - 1, from + 1)

FreshIds(coll, tag, n) ==
    {<<tag, k>> : k \in FreshIndexes({c.id[2] : c \in {d \in coll : d.id[1] = tag}}, n, 1)}

\* How many chunks ChromaDB holds.
RECURSIVE StoredIn(_)
StoredIn(colls) ==
    IF colls = {} THEN 0
    ELSE LET c == CHOOSE x \in colls : TRUE
         IN  Cardinality(chroma[c]) + StoredIn(colls \ {c})

\* Faulty variant of IngestedChunks: the splits are added without the tags.
IngestedChunks_Untagged(agent_id, path, file_id, n) ==
    {[id |-> id, source |-> path, file_id |-> NoneVal, source_file |-> NoneVal,
      owner |-> agent_id] :
        id \in FreshIds(chroma[CollectionName(agent_id)], file_id, n)}

\* ingest_file, lines 78-99: the n splits of the file, tagged when file_id is
\* given, added to the collection the instance is bound to under fresh ids.
IngestedChunks(agent_id, path, file_id, n) ==
    LET tag == IF file_id \in Falsy THEN NoneVal ELSE file_id
        ids == FreshIds(chroma[CollectionName(agent_id)], tag, n)
    IN  {Chunk(id, path, file_id, agent_id) : id \in ids}

\* Faulty variant of AddDocuments: the collection is replaced by the new chunks.
AddDocuments_Replaces(agent_id, chunks) ==
    [chroma EXCEPT ![CollectionName(agent_id)] = chunks]

\* ingest_file, lines 88-97: add_documents on the bound collection.
AddDocuments(agent_id, chunks) ==
    [chroma EXCEPT ![CollectionName(agent_id)] = @ \cup chunks]

\* The chunks of a collection that carry / do not carry the tag file_id.
Tagged(coll, file_id) == {c \in coll : c.file_id = file_id}
NotTagged(coll, file_id) == {c \in coll : c.file_id # file_id}

\* Faulty variant of ChunksOfFile: the where filter is left out of collection.get.
ChunksOfFile_NoFilter(agent_id, file_id) ==
    chroma[CollectionName(agent_id)]

\* delete_file, lines 120-122: collection.get(where={"file_id": file_id}).
ChunksOfFile(agent_id, file_id) ==
    {c \in chroma[CollectionName(agent_id)] : c.file_id = file_id}

\* Faulty variant of DeleteIds: only the first id found is deleted.
DeleteIds_FirstOnly(agent_id, ids) ==
    LET first == CHOOSE i \in ids : \A j \in ids : i[2] <= j[2]
    IN  [chroma EXCEPT ![CollectionName(agent_id)] = {c \in @ : c.id # first}]

\* Faulty variant of DeleteIds: the ids are deleted from every collection.
DeleteIds_EveryCollection(agent_id, ids) ==
    [n \in CollectionNames |-> {c \in chroma[n] : c.id \notin ids}]

\* delete_file, line 126: collection.delete(ids=results['ids']).
DeleteIds(agent_id, ids) ==
    [chroma EXCEPT ![CollectionName(agent_id)] = {c \in @ : c.id \notin ids}]

\* Faulty variant of DeleteFileChroma: the ids are counted but collection.delete is
\* never called.
DeleteFileChroma_NoDelete(agent_id, file_id) == chroma

\* delete_file, lines 124-132: the collection after the call.
DeleteFileChroma(agent_id, file_id) ==
    LET found == ChunksOfFile(agent_id, file_id)
    IN  IF found # {} THEN DeleteIds(agent_id, {c.id : c \in found}) ELSE chroma

\* delete_file, lines 127-132: the value returned.
DeleteFileCount(agent_id, file_id) ==
    LET found == ChunksOfFile(agent_id, file_id)
    IN  IF found # {} THEN Cardinality(found) ELSE 0

\* get_retriever().invoke: the k nearest chunks of the bound collection. The
\* similarity order is the embedding engine's: any k of them can be nearest.
RetrieveChoicesIn(coll) ==
    LET k == IF Cardinality(coll) < RetrieverK THEN Cardinality(coll) ELSE RetrieverK
    IN  {s \in SUBSET coll : Cardinality(s) = k}

RetrieveChoices(agent_id) == RetrieveChoicesIn(chroma[CollectionName(agent_id)])

\* The history of chunks added per file id, after an ingest / a delete.
InsertedAfterIngest(agent_id, file_id, n) ==
    IF file_id \in Falsy THEN inserted
    ELSE [inserted EXCEPT ![CollectionName(agent_id)][file_id] = @ + n]

InsertedAfterDelete(agent_id, file_id) ==
    IF file_id \in Falsy THEN inserted
    ELSE [inserted EXCEPT ![CollectionName(agent_id)][file_id] = 0]

NothingPurged == <<NoneVal, NoneVal>>

PurgedAfterIngest(agent_id, file_id) ==
    IF purged = <<CollectionName(agent_id), file_id>> THEN NothingPurged ELSE purged

PurgedAfterDelete(agent_id, file_id) ==
    IF inserted[CollectionName(agent_id)][file_id] > 0
    THEN <<CollectionName(agent_id), file_id>>
    ELSE purged

\* The record kept of a call on a store instance: the operation, what the
\* services did (env), how the call ended ("ok" or the exception raised), the
\* count returned and the documents returned, and, unless the services failed,
\* the instance's agent_id and the file_id argument.
StoreCall(op, agent_id, file_id, env, outcome, ret, docs) ==
    [op |-> op,
     agent_id |-> IF env = "ok" THEN agent_id ELSE NoneVal,
     file_id |-> IF env = "ok" THEN file_id ELSE NoneVal,
     env |-> env, outcome |-> outcome, ret |-> ret, docs |-> docs]

NoStoreCall ==
    [op |-> "none", agent_id |-> NoneVal, file_id |-> NoneVal, env |-> "ok",
     outcome |-> "none", ret |-> 0, docs |-> {}]

\* VectorStoreManager(agent_id).ingest_file(path, file_id). `env` is what the
\* services do: "ok", "down" (__init__ could not reach ChromaDB: self.client is
\* None) or "error" (add_documents, i.e. embedding + insertion, raises).
IngestOutcome(path, env) ==
    IF env = "down" THEN "ValueError"
    ELSE IF path \notin disk THEN "FileNotFoundError"
    ELSE IF env = "error" THEN "StoreError"
    ELSE "ok"

\* What the loader and the splitter make of the file: "text" (one split or
\* more), "blank" (a document with no text: no split) or "none" (the loader
\* returned no document).
IngestTexts == {"text", "blank", "none"}

\* How an ingest_file call can end: "ok" (line 99, the count is returned),
\* "None" (lines 74-76: nothing to ingest, None is returned) or the exception
\* raised. add_documents called with no split (a blank document) either does
\* nothing or raises: that is the library's choice.
IngestOutcomes(path, text, env) ==
    LET early == IngestOutcome(path, IF env = "down" THEN "down" ELSE "ok")
    IN  IF early # "ok" THEN {early}
        ELSE IF text = "none" THEN {"None"}
        ELSE IF env = "error" THEN {"StoreError"}
        ELSE IF text = "blank" THEN {"ok", "StoreError"}
        ELSE {"ok"}

ingest_file(agent_id, path, file_id, text, n, env) ==
    \E outcome \in IngestOutcomes(path, text, env) :
        IF outcome = "ok" /\ n > 0
        THEN /\ StoredIn(CollectionNames) + n <= MaxStored
             /\ chroma' = AddDocuments(agent_id, IngestedChunks(agent_id, path, file_id, n))
             /\ inserted' = InsertedAfterIngest(agent_id, file_id, n)
             /\ purged' = PurgedAfterIngest(agent_id, file_id)
             /\ storeCall' = StoreCall("ingest_file", agent_id, file_id, env, "ok", n, {})
        ELSE /\ storeCall' = StoreCall("ingest_file", NoneVal, NoneVal, env, outcome, 0, {})
             /\ UNCHANGED <<chroma, inserted, purged>>

\* VectorStoreManager(agent_id).delete_file(file_id). With env = "error" a
\* collection call raises and the exception is re-raised (lines 133-135).
DeleteOutcome(env) ==
    IF env = "down" THEN "ValueError"
    ELSE IF env = "error" THEN "StoreError"
    ELSE "ok"

delete_file(agent_id, file_id, env) ==
    IF DeleteOutcome(env) = "ok"
    THEN /\ chroma' = DeleteFileChroma(agent_id, file_id)
         /\ inserted' = InsertedAfterDelete(agent_id, file_id)
         /\ purged' = PurgedAfterDelete(agent_id, file_id)
         /\ storeCall' = StoreCall("delete_file", agent_id, file_id, env, "ok",
                                   DeleteFileCount(agent_id, file_id), {})
    ELSE /\ storeCall' = StoreCall("delete_file", agent_id, file_id, env,
                                   DeleteOutcome(env), 0, {})
         /\ UNCHANGED <<chroma, inserted, purged>>

\* VectorStoreManager(agent_id).get_retriever() (ValueError when ChromaDB was
\* not reached) and the retriever's invoke: `docs` is its answer.
RetrieveOutcome(env) ==
    IF env = "down" THEN "ValueError"
    ELSE IF env = "error" THEN "StoreError"
    ELSE "ok"

retrieve(agent_id, env, docs) ==
    /\ storeCall' = IF RetrieveOutcome(env) = "ok"
                    THEN StoreCall("retrieve", agent_id, NoneVal, env, "ok", 0, docs)
                    ELSE StoreCall("retrieve", agent_id, NoneVal, env,
                                   RetrieveOutcome(env), 0, {})
    /\ UNCHANGED <<chroma, inserted, purged>>

(***************************************************************************)
(* StoreSpec: the store's API called directly                              *)
(***************************************************************************)

StoreEnv == {"ok", "down", "error"}

\* The files a direct caller ingests from: one that exists, one that does not.
StorePaths == {Path(UPLOAD_DIR, "a.txt"), Path(UPLOAD_DIR, "missing.txt")}

StoreIngest ==
    \E a \in StoreAgentArgs, path \in StorePaths, f \in FileIds,
       text \in IngestTexts, env \in StoreEnv :
        \E n \in (IF text = "text" THEN 1..MaxChunks ELSE {0}) :
            /\ ingest_file(a, path, f, text, n, env)
        /\ UNCHANGED <<dbVars, queryVars, handlerVars, chatVars>>

StoreDelete ==
    \E a \in StoreAgentArgs, f \in FileIds, env \in StoreEnv :
        /\ delete_file(a, f, env)
        /\ UNCHANGED <<dbVars, queryVars, handlerVars, chatVars>>

StoreRetrieve ==
    \E a \in StoreAgentArgs, env \in StoreEnv :
        \E docs \in (IF env = "ok" THEN RetrieveChoices(a) ELSE {{}}) :
            /\ retrieve(a, env, docs)
            /\ UNCHANGED <<dbVars, queryVars, handlerVars, chatVars>>

(***************************************************************************)
(* The query pipeline: Coordinator.process_query                           *)
(***************************************************************************)

\* The queries in flight (one process_query call each).
Queries == {"q1", "q2"}

\* RoutingDecision, as the completion service can fill it: the classifier is
\* free to name an agent of the roster, an agent that is not (or no longer) in
\* it, or none. It gives the agent's name with the id.
RoutedName(agent_id) == IF agent_id \in AgentIds THEN AgentNameOf(agent_id) ELSE "General"

\* RoutingDecision.confidence (read at coordinator.py line 65): the ends of
\* the range [0, 1].
Confidences == {"0.0", "1.0"}

RoutingDecisions ==
    {[agent_id |-> a, agent_name |-> RoutedName(a), confidence |-> c] :
        a \in AgentIds \cup {NoneVal}, c \in Confidences}

\* The Specialist's answer text: response["answer"], free text, possibly empty.
DraftAnswers == {"", "draft answer"}

\* AuditResult: is_safe and a final_answer that is always populated, either
\* the draft echoed or the auditor's replacement.
AuditFinalAnswers == {"draft answer", "rewritten answer"}

\* AuditResult.feedback (read at coordinator.py line 102): optional.
AuditFeedbacks == {NoneVal, "feedback"}

AuditResults ==
    [is_safe : BOOLEAN, final_answer : AuditFinalAnswers, feedback : AuditFeedbacks]

NoRouting == [agent_id |-> NoneVal, agent_name |-> NoneVal, confidence |-> NoneVal]
NoDraft   == [answer |-> NoneVal, sources |-> {}]
NoAudit   == [is_safe |-> FALSE, final_answer |-> NoneVal, feedback |-> NoneVal]

\* What process_query handed back: the dict returned, or the exception raised
\* (with the stage that raised it). No dict is written <<>>.
NoDict == <<>>

NoResult == [kind |-> "none", dict |-> NoDict, stage |-> NoneVal, error |-> NoneVal]

Returned(dict) == [kind |-> "returned", dict |-> dict, stage |-> NoneVal, error |-> NoneVal]

Raised(stage, error) == [kind |-> "raised", dict |-> NoDict, stage |-> stage, error |-> error]

NO_AGENTS_MESSAGE ==
    "No agents are available. Please create at least one agent in the Settings page to get started."

\* coordinator.py lines 48-52.
NoAgentsResult ==
    [final_answer |-> NO_AGENTS_MESSAGE, agent_name |-> "System", sources |-> {}]

\* Faulty variant of FinalResult: the Specialist's label stands for the routed agent's name.
FinalResult_SpecialistLabel(audit_result, routing_decision, agent_response) ==
    [final_answer |-> audit_result.final_answer,
     agent_name   |-> routing_decision.agent_name \o "_Specialist",
     sources      |-> agent_response.sources]

\* Faulty variant of FinalResult: the draft's answer is returned, not the audited one.
FinalResult_DraftAnswer(audit_result, routing_decision, agent_response) ==
    [final_answer |-> agent_response.answer,
     agent_name   |-> routing_decision.agent_name,
     sources      |-> agent_response.sources]

\* coordinator.py lines 117-121.
FinalResult(audit_result, routing_decision, agent_response) ==
    [final_answer |-> audit_result.final_answer,
     agent_name   |-> routing_decision.agent_name,
     sources      |-> agent_response.sources]

\* Faulty variant of RosterIsEmpty: the comparison is wrong.
RosterIsEmpty_Negative == Cardinality(agents) < 0

\* coordinator.py lines 45-46: db.query(Agent).count() == 0.
RosterIsEmpty == Cardinality(agents) = 0

\* A stage call starts / ends (returns or raises).
Invoke(q, stage) ==
    /\ calls' = [calls EXCEPT ![q] = Append(@, stage)]
    /\ running' = [running EXCEPT ![q] = @ \cup {stage}]

Finish(q, stage) ==
    /\ running' = [running EXCEPT ![q] = @ \ {stage}]
    /\ UNCHANGED calls

\* process_query raises: the exception of a stage is not caught.
Raise(q, stage, error) ==
    /\ pc' = [pc EXCEPT ![q] = "failed"]
    /\ result' = [result EXCEPT ![q] = Raised(stage, error)]

\* process_query, lines 25-54: the roster count, and the early return.
ProcessQuery(q) ==
    /\ pc[q] = "idle"
    /\ IF RosterIsEmpty
       THEN /\ pc' = [pc EXCEPT ![q] = "done"]
            /\ result' = [result EXCEPT ![q] = Returned(NoAgentsResult)]
       ELSE /\ pc' = [pc EXCEPT ![q] = "route"]
            /\ UNCHANGED result
    /\ UNCHANGED <<routing, draft, audit, calls, running, retrieved, roster, directive, auditRequest,
                 dbVars, storeVars, handlerVars, chatVars>>

\* Faulty variant of RouteInvoke: the roster read for an earlier query is kept
\* and offered again.
RouteInvoke_CachedRoster(q) ==
    /\ pc[q] = "route"
    /\ calls' = [calls EXCEPT ![q] = Append(@, "router")]
    /\ running' = [running EXCEPT ![q] = @ \cup {"router"}]
    /\ roster' = [roster EXCEPT ![q] =
                    IF \E o \in DOMAIN roster : roster[o] # {"<none>"}
                    THEN roster[CHOOSE o \in DOMAIN roster : roster[o] # {"<none>"}]
                    ELSE agents]
    /\ pc' = [pc EXCEPT ![q] = "routing"]
    /\ UNCHANGED <<routing, draft, audit, result, retrieved, directive, auditRequest,
                 dbVars, storeVars, handlerVars, chatVars>>

\* process_query, line 57: dispatcher.route_query is called; it reads the
\* roster and asks the completion service (dispatcher.py lines 21-44).
RouteInvoke(q) ==
    /\ pc[q] = "route"
    /\ Invoke(q, "router")
    /\ roster' = [roster EXCEPT ![q] = agents]
    /\ pc' = [pc EXCEPT ![q] = "routing"]
    /\ UNCHANGED <<routing, draft, audit, result, retrieved, directive, auditRequest,
                 dbVars, storeVars, handlerVars, chatVars>>

\* Faulty variant of RouteReturn: a failed routing is tried again.
RouteReturn_Retries(q) ==
    /\ pc[q] = "routing"
    /\ running' = [running EXCEPT ![q] = @ \ {"router"}]
    /\ UNCHANGED calls
    /\ \/ \E d \in {[agent_id |-> a, confidence |-> c,
                      agent_name |-> IF a \in AgentIds THEN AgentNameOf(a) ELSE "General"] :
                        a \in AgentIds \cup {NoneVal}, c \in {"0.0", "1.0"}} :
            /\ routing' = [routing EXCEPT ![q] = d]
            /\ pc' = [pc EXCEPT ![q] = "draft"]
       \/ /\ pc' = [pc EXCEPT ![q] = "route"]
          /\ UNCHANGED routing
    /\ UNCHANGED <<result, draft, audit, retrieved, roster, directive, auditRequest,
                 dbVars, storeVars, handlerVars, chatVars>>

\* Faulty variant of RouteReturn: a decision of low confidence is answered
\* without the Specialist.
RouteReturn_ConfidenceThreshold(q) ==
    /\ pc[q] = "routing"
    /\ Finish(q, "router")
    /\ \/ \E d \in RoutingDecisions :
            /\ routing' = [routing EXCEPT ![q] = d]
            /\ IF d.confidence = "0.0"
               THEN /\ pc' = [pc EXCEPT ![q] = "done"]
                    /\ result' = [result EXCEPT ![q] = Returned(NoAgentsResult)]
               ELSE /\ pc' = [pc EXCEPT ![q] = "draft"]
                    /\ UNCHANGED result
       \/ /\ Raise(q, "router", "LLMError")
          /\ UNCHANGED routing
    /\ UNCHANGED <<draft, audit, retrieved, roster, directive, auditRequest,
                 dbVars, storeVars, handlerVars, chatVars>>

\* route_query returns the decision, or the chain raises (a malformed
\* decision included) and the exception leaves process_query.
RouteReturn(q) ==
    /\ pc[q] = "routing"
    /\ Finish(q, "router")
    /\ \/ \E d \in RoutingDecisions :
            /\ routing' = [routing EXCEPT ![q] = d]
            /\ pc' = [pc EXCEPT ![q] = "draft"]
            /\ UNCHANGED result
       \/ /\ Raise(q, "router", "LLMError")
          /\ UNCHANGED routing
    /\ UNCHANGED <<draft, audit, retrieved, roster, directive, auditRequest,
                 dbVars, storeVars, handlerVars, chatVars>>

\* Faulty variant of SourcesOf: the sources of everything stored are listed.
SourcesOf_WholeStore(docs) ==
    {c.source : c \in UNION {chroma[n] : n \in CollectionNames}}

\* specialist.py lines 49-50: the distinct metadata "source" of the context.
SourcesOf(docs) == {c.source : c \in docs}

\* specialist.py lines 19-47, up to the retriever's answer. The Agent model has
\* no system_prompt column, so reading agent.system_prompt of a row that was
\* found raises AttributeError; get_retriever raises ValueError when ChromaDB
\* was not reached; then the chain runs the retriever.
SpecialistSetup(agent_id, env) ==
    IF agent_id \notin Falsy /\ agent_id \in agents THEN "AttributeError"
    ELSE RetrieveOutcome(env)

\* specialist.py lines 28 and 35: the prompt of an agent without one of its own.
GENERIC_PROMPT == "You are a helpful assistant."

\* specialist.py lines 19-37: the system prompt of the chain. Line 26 (the
\* agent's own prompt) is never reached: the test of line 25 raises for every
\* row found (see SpecialistSetup), and is false when none is.
SystemPrompt(agent_id) == GENERIC_PROMPT

\* Faulty variant of SpecialistStoreArg: without a routed agent the store of the
\* first agent of the roster is opened.
SpecialistStoreArg_FirstAgent(agent_id) ==
    IF agent_id \notin Falsy THEN agent_id
    ELSE IF agents # {} THEN CHOOSE a \in agents : TRUE
    ELSE NoneVal

\* specialist.py lines 19, 32 and 36: the store the Specialist opens, the
\* routed agent's when the decision names one and the default one otherwise.
SpecialistStoreArg(agent_id) == IF agent_id \notin Falsy THEN agent_id ELSE NoneVal

\* chat.py lines 76-81: the agent_id a request hands to process_query. The two
\* queries differ in it: the first names an agent, the second none.
RequestedAgent(q) == IF q = "q1" THEN "h1" ELSE NoneVal

\* Faulty variant of SpecialistAgentArg: the agent the request names is used
\* when it names one.
SpecialistAgentArg_PrefersRequested(requested, routed) ==
    IF requested \notin Falsy THEN requested ELSE routed

\* coordinator.py line 78: generate_response is given agent_id=routing.agent_id;
\* the agent_id argument of process_query is logged (line 31) and not used.
SpecialistAgentArg(requested, routed) == routed

\* Faulty variant of DraftInvoke: the Specialist is started without waiting for the
\* Router's decision.
DraftInvoke_WithoutWaiting(q) ==
    /\ pc[q] \in {"routing", "draft"}
    /\ calls' = [calls EXCEPT ![q] = Append(@, "specialist")]
    /\ \E docs \in RetrieveChoices(routing[q].agent_id) :
            retrieved' = [retrieved EXCEPT ![q] = docs]
    /\ running' = [running EXCEPT ![q] = @ \cup {"specialist"}]
    /\ pc' = [pc EXCEPT ![q] = "drafting"]
    /\ UNCHANGED <<result, routing, draft, audit, roster, directive, auditRequest,
                 dbVars, storeVars, handlerVars, chatVars>>

\* Faulty variant of DraftInvoke: the Specialist opens the default store
\* whatever agent the query was routed to.
DraftInvoke_DefaultStore(q) ==
    /\ pc[q] = "draft"
    /\ calls' = [calls EXCEPT ![q] = Append(@, "specialist")]
    /\ \E docs \in RetrieveChoicesIn(chroma["nexus_mind_docs"]) :
            retrieved' = [retrieved EXCEPT ![q] = docs]
    /\ running' = [running EXCEPT ![q] = @ \cup {"specialist"}]
    /\ pc' = [pc EXCEPT ![q] = "drafting"]
    /\ UNCHANGED <<result, routing, draft, audit, roster, directive, auditRequest,
                 dbVars, storeVars, handlerVars, chatVars>>

\* process_query, line 78: specialist.generate_response(query, routing,
\* agent_id=routing.agent_id) is called: the agent row is looked up, the
\* store is opened on the agent's collection and the retriever queried; the
\* completion service is then asked for the answer.
DraftInvoke(q) ==
    /\ pc[q] = "draft"
    /\ calls' = [calls EXCEPT ![q] = Append(@, "specialist")]
    /\ \E env \in StoreEnv :
        LET agent_id == SpecialistAgentArg(RequestedAgent(q), routing[q].agent_id)
            setup    == SpecialistSetup(agent_id, env)
        IN  IF setup = "ok"
            THEN /\ \E docs \in RetrieveChoices(SpecialistStoreArg(agent_id)) :
                        retrieved' = [retrieved EXCEPT ![q] = docs]
                 /\ directive' = [directive EXCEPT ![q] = SystemPrompt(agent_id)]
                 /\ running' = [running EXCEPT ![q] = @ \cup {"specialist"}]
                 /\ pc' = [pc EXCEPT ![q] = "drafting"]
                 /\ UNCHANGED result
            ELSE /\ Raise(q, "specialist", setup)
                 /\ UNCHANGED <<running, retrieved, directive>>
    /\ UNCHANGED <<routing, draft, audit, roster, auditRequest,
                 dbVars, storeVars, handlerVars, chatVars>>

\* Faulty variant of DraftReturn: the answer is stored in the routed agent's
\* collection for later queries.
DraftReturn_StoresAnswer(q) ==
    /\ pc[q] = "drafting"
    /\ Finish(q, "specialist")
    /\ \/ \E answer \in DraftAnswers :
            /\ draft' = [draft EXCEPT ![q] =
                            [answer |-> answer, sources |-> SourcesOf(retrieved[q])]]
            /\ pc' = [pc EXCEPT ![q] = "audit"]
            /\ chroma' = [chroma EXCEPT ![CollectionName(SpecialistStoreArg(routing[q].agent_id))] =
                            @ \cup {Chunk(<<q, 1>>, Path("answers", q), NoneVal, routing[q].agent_id)}]
            /\ UNCHANGED result
       \/ /\ Raise(q, "specialist", "LLMError")
          /\ UNCHANGED <<draft, chroma>>
    /\ UNCHANGED <<routing, audit, retrieved, roster, directive, auditRequest,
                 dbVars, inserted, purged, storeCall, handlerVars, chatVars>>

\* generate_response returns the AgentResponse (lines 47-56), or the model
\* call raises.
DraftReturn(q) ==
    /\ pc[q] = "drafting"
    /\ Finish(q, "specialist")
    /\ \/ \E answer \in DraftAnswers :
            /\ draft' = [draft EXCEPT ![q] =
                            [answer |-> answer, sources |-> SourcesOf(retrieved[q])]]
            /\ pc' = [pc EXCEPT ![q] = "audit"]
            /\ UNCHANGED result
       \/ /\ Raise(q, "specialist", "LLMError")
          /\ UNCHANGED draft
    /\ UNCHANGED <<routing, audit, retrieved, roster, directive, auditRequest,
                 dbVars, storeVars, handlerVars, chatVars>>

\* coordinator.py line 36: the text of a query, as UserQuery keeps it.
QueryText(q) == "text of " \o q

\* No audit was requested.
NoRequest == <<>>

\* auditor.py lines 23-26: the variables audit_response fills its prompt with.
AuditRequest(query_text, agent_response) ==
    [query |-> query_text, response |-> agent_response.answer]

\* process_query, line 94: auditor.audit_response(query, agent_response) is
\* called.
AuditInvoke(q) ==
    /\ pc[q] = "audit"
    /\ Invoke(q, "auditor")
    /\ auditRequest' = [auditRequest EXCEPT ![q] = AuditRequest(QueryText(q), draft[q])]
    /\ pc' = [pc EXCEPT ![q] = "auditing"]
    /\ UNCHANGED <<routing, draft, audit, result, retrieved, roster, directive,
                 dbVars, storeVars, handlerVars, chatVars>>

\* Faulty variant of AuditReturn: when the audit fails the unaudited draft is returned.
AuditReturn_FallsBackToDraft(q) ==
    /\ pc[q] = "auditing"
    /\ running' = [running EXCEPT ![q] = @ \ {"auditor"}]
    /\ UNCHANGED calls
    /\ pc' = [pc EXCEPT ![q] = "done"]
    /\ \/ \E v \in [is_safe : BOOLEAN, final_answer : {"draft answer", "rewritten answer"},
                     feedback : {"<none>", "feedback"}] :
            /\ audit' = [audit EXCEPT ![q] = v]
            /\ result' = [result EXCEPT ![q] =
                    [kind |-> "returned", stage |-> NoneVal, error |-> NoneVal,
                     dict |-> [final_answer |-> v.final_answer,
                               agent_name |-> routing[q].agent_name,
                               sources |-> draft[q].sources]]]
       \/ /\ result' = [result EXCEPT ![q] =
                    [kind |-> "returned", stage |-> NoneVal, error |-> NoneVal,
                     dict |-> [final_answer |-> draft[q].answer,
                               agent_name |-> routing[q].agent_name,
                               sources |-> draft[q].sources]]]
          /\ UNCHANGED audit
    /\ UNCHANGED <<routing, draft, retrieved, roster, directive, auditRequest,
                 dbVars, storeVars, handlerVars, chatVars>>

\* Faulty variant of AuditReturn: the decision is kept in a field of the shared
\* Coordinator, where another query's decision can replace it.
AuditReturn_SharedDecision(q) ==
    /\ pc[q] = "auditing"
    /\ Finish(q, "auditor")
    /\ \/ \E v \in AuditResults :
            /\ audit' = [audit EXCEPT ![q] = v]
            /\ pc' = [pc EXCEPT ![q] = "done"]
            /\ result' = [result EXCEPT ![q] =
                    Returned(FinalResult(v,
                        routing[CHOOSE o \in Queries : routing[o] # NoRouting], draft[q]))]
       \/ /\ Raise(q, "auditor", "LLMError")
          /\ UNCHANGED audit
    /\ UNCHANGED <<routing, draft, retrieved, roster, directive, auditRequest,
                 dbVars, storeVars, handlerVars, chatVars>>

\* Faulty variant of AuditReturn: a draft judged unsafe is sent back to the
\* Specialist.
AuditReturn_Redrafts(q) ==
    /\ pc[q] = "auditing"
    /\ Finish(q, "auditor")
    /\ \/ \E v \in AuditResults :
            /\ audit' = [audit EXCEPT ![q] = v]
            /\ IF v.is_safe
               THEN /\ pc' = [pc EXCEPT ![q] = "done"]
                    /\ result' = [result EXCEPT ![q] =
                                    Returned(FinalResult(v, routing[q], draft[q]))]
               ELSE /\ pc' = [pc EXCEPT ![q] = "drafting"]
                    /\ UNCHANGED result
       \/ /\ Raise(q, "auditor", "LLMError")
          /\ UNCHANGED audit
    /\ UNCHANGED <<routing, draft, retrieved, roster, directive, auditRequest,
                 dbVars, storeVars, handlerVars, chatVars>>

\* audit_response returns the verdict and process_query returns the result
\* (lines 95-121), or the chain raises and the exception leaves process_query.
AuditReturn(q) ==
    /\ pc[q] = "auditing"
    /\ Finish(q, "auditor")
    /\ \/ \E v \in AuditResults :
            /\ audit' = [audit EXCEPT ![q] = v]
            /\ pc' = [pc EXCEPT ![q] = "done"]
            /\ result' = [result EXCEPT ![q] = Returned(FinalResult(v, routing[q], draft[q]))]
       \/ /\ Raise(q, "auditor", "LLMError")
          /\ UNCHANGED audit
    /\ UNCHANGED <<routing, draft, retrieved, roster, directive, auditRequest,
                 dbVars, storeVars, handlerVars, chatVars>>

\* agents.py lines 98-119: delete_agent. The row goes, and with it (cascade
\* "all, delete-orphan") the agent's rows of the files table; the uploaded
\* files and the agent's collection stay. An unknown id is answered 404.
DeleteAgent(agent_id) ==
    /\ agent_id \in agents
    /\ agents' = agents \ {agent_id}
    /\ files' = {f \in files : f.agent_id # agent_id}
    /\ UNCHANGED <<disk, storeVars, queryVars, handlerVars, chatVars>>

\* chat.py lines 112-127: what the caller of a failed query is told, the type
\* and the message of the exception that left process_query. Nothing in it
\* names the stage that raised.
SurfacedError(res) == res.error

(***************************************************************************)
(* Initial state and specifications                                        *)
(***************************************************************************)

\* No roster read yet.
NoRoster == {NoneVal}

QueryInit ==
    /\ pc = [q \in Queries |-> "idle"]
    /\ routing = [q \in Queries |-> NoRouting]
    /\ draft = [q \in Queries |-> NoDraft]
    /\ audit = [q \in Queries |-> NoAudit]
    /\ result = [q \in Queries |-> NoResult]
    /\ calls = [q \in Queries |-> <<>>]
    /\ running = [q \in Queries |-> {}]
    /\ retrieved = [q \in Queries |-> {}]
    /\ roster = [q \in Queries |-> NoRoster]
    /\ directive = [q \in Queries |-> NoneVal]
    /\ auditRequest = [q \in Queries |-> NoRequest]

\* The upload and delete requests in flight (one handler call each).
Uploads == {"u1", "u2"}
Deletes == {"d1", "d2"}

\* No request has been received. Of a refused upload the agent id and the
\* file it came with are kept (arg, file).
IdleUpload ==
    [pc |-> "idle", agent_id |-> NoneVal, n |-> 0, store |-> NoneVal, resp |-> NoneVal,
     arg |-> NoneVal, file |-> <<>>]

IdleDeletion ==
    [pc |-> "idle", agent_id |-> NoneVal, file_id |-> NoneVal, store |-> NoneVal,
     resp |-> NoneVal]

HandlerInit ==
    /\ upload = [u \in Uploads |-> IdleUpload]
    /\ deletion = [d \in Deletes |-> IdleDeletion]

\* The server processes, each with its own module globals.
Processes == {"p1", "p2"}

\* No chat request has been received: nothing is stored, and no process has
\* a Coordinator yet (chat.py line 15).
NoChat == [pc |-> "idle", process |-> NoneVal, session_id |-> NoneVal, coord |-> 0,
           resp |-> NoneVal]

ChatIdle ==
    /\ chat = [q \in Queries |-> NoChat]
    /\ sessions = {}
    /\ messages = {}
    /\ coordinator = [p \in Processes |-> 0]
    /\ constructed = [p \in Processes |-> 0]

\* files.py line 117: where upload_file_to_agent stores a file.
UploadPath(file_id, name) == Path(UPLOAD_DIR, file_id \o "_" \o name)

\* files.py lines 134-140: the row of an uploaded file.
FileRow(file_id, agent_id, name) ==
    [id |-> file_id, agent_id |-> agent_id, name |-> name,
     filepath |-> UploadPath(file_id, name)]

\* The uploads made before the queries of Spec: who uploaded which file, and
\* the chunks it was split into.
EarlierUploads ==
    {[agent_id |-> "h1", file_id |-> "F1", name |-> "a.txt", chunks |-> 2],
     [agent_id |-> "h2", file_id |-> "F2", name |-> "b.txt", chunks |-> 1]}

\* What an earlier ingest_data left in the default collection: a chunk of a
\* text file of the data directory, without file_id (vector_store.py lines
\* 30-60).
DefaultDocs == {Chunk(<<"D", 1>>, Path("data", "policy.txt"), NoneVal, NoneVal)}

\* What ingest_file stored for an upload (vector_store.py lines 82-97).
UploadedChunks(u) ==
    {Chunk(<<u.file_id, k>>, UploadPath(u.file_id, u.name), u.file_id, u.agent_id) :
        k \in 1..u.chunks}

\* Spec starts after those uploads, on the agents table as it is then: every
\* agent that uploaded may since have been deleted, its rows of the files
\* table with it, its file and its collection left behind.
Init ==
    /\ agents \in SUBSET AgentIds
    /\ files = {FileRow(u.file_id, u.agent_id, u.name) :
                    u \in {v \in EarlierUploads : v.agent_id \in agents}}
    /\ disk = {UploadPath(u.file_id, u.name) : u \in EarlierUploads}
    /\ chroma = [c \in CollectionNames |->
                    (IF c = CollectionName(NoneVal) THEN DefaultDocs ELSE {}) \cup
                    UNION {UploadedChunks(u) :
                             u \in {v \in EarlierUploads : CollectionName(v.agent_id) = c}}]
    /\ inserted = [c \in CollectionNames |-> [f \in FileIds |->
                    Cardinality(Tagged(chroma[c], f))]]
    /\ purged = NothingPurged
    /\ storeCall = NoStoreCall
    /\ QueryInit
    /\ HandlerInit
    /\ ChatIdle

Next ==
    \/ \E q \in Queries : ProcessQuery(q)
    \/ \E q \in Queries : RouteInvoke(q)
    \/ \E q \in Queries : RouteReturn(q)
    \/ \E q \in Queries : DraftInvoke(q)
    \/ \E q \in Queries : DraftReturn(q)
    \/ \E q \in Queries : AuditInvoke(q)
    \/ \E q \in Queries : AuditReturn(q)
    \/ \E a \in AgentIds : DeleteAgent(a)

Spec == Init /\ [][Next]_vars

\* One step of process_query for a query, whichever it is.
QueryStep(q) ==
    \/ ProcessQuery(q)
    \/ RouteInvoke(q)
    \/ RouteReturn(q)
    \/ DraftInvoke(q)
    \/ DraftReturn(q)
    \/ AuditInvoke(q)
    \/ AuditReturn(q)

\* Spec with progress: process_query is straight-line code, so a query that
\* can take its next step takes it, and a call to the completion service or to
\* the store returns or raises in the end. Agent deletions may happen or not.
LiveSpec == Spec /\ \A q \in Queries : WF_vars(QueryStep(q))

\* The store used directly starts empty, with a file ready to be ingested.
StoreInit ==
    /\ agents = AgentIds
    /\ files = {}
    /\ disk = {Path(UPLOAD_DIR, "a.txt")}
    /\ chroma = [c \in CollectionNames |-> {}]
    /\ inserted = [c \in CollectionNames |-> [f \in FileIds |-> 0]]
    /\ purged = NothingPurged
    /\ storeCall = NoStoreCall
    /\ QueryInit
    /\ HandlerInit
    /\ ChatIdle

StoreNext == StoreIngest \/ StoreDelete \/ StoreRetrieve

StoreSpec == StoreInit /\ [][StoreNext]_vars

(***************************************************************************)
(* FileSpec: the file handlers of the API, upload_file_to_agent and        *)
(* delete_agent_file, served for several requests at once, with            *)
(* retrievals on the agent's collection in between. A handler is split     *)
(* where it calls the database, the disk or ChromaDB.                      *)
(***************************************************************************)

\* files.py line 116: the identifier a request's upload gets (a new uuid4).
UploadFileId(u) == IF u = "u1" THEN "F1" ELSE "F2"

\* The name the uploaded file has after validate_file.
UploadName == "a.txt"

\* Faulty variant of UploadIngestFailed: the record is rolled back and the
\* upload answered 500.
UploadIngestFailed_RollsBack(u, error) ==
    /\ upload' = [upload EXCEPT ![u] =
                    [@ EXCEPT !.pc = "done", !.store = error, !.resp = "500"]]
    /\ files' = {r \in files : r.id # UploadFileId(u)}
    /\ UNCHANGED disk

\* upload_file_to_agent, lines 157-172: an exception of the ingestion is
\* logged, and the upload is answered as if it had gone through.
UploadIngestFailed(u, error) ==
    /\ upload' = [upload EXCEPT ![u] =
                    [@ EXCEPT !.pc = "done", !.store = error, !.resp = "200"]]
    /\ UNCHANGED <<files, disk>>

\* The agent ids a request's path can carry: an agent's id as stored, the
\* same uuid written in capitals, and a text that is no uuid.
HandlerIdArgs == AgentIds \cup {"H1", "not-a-uuid"}

\* validators.py lines 44-63: validate_uuid gives the uuid back in its
\* canonical writing, and raises ValidationError for what is none.
validate_uuid(value) ==
    IF value \in AgentIds THEN value
    ELSE IF value = "H1" THEN "h1"
    ELSE "ValidationError"

\* validators.py line 24, in bytes.
MAX_FILE_SIZE == 10 * 1024 * 1024

\* validators.py line 25.
ALLOWED_FILE_EXTENSIONS == {".pdf", ".txt", ".md", ".docx", ".doc"}

\* The files a request can carry: name as sent (possibly with directories),
\* its suffix, and size in bytes.
UploadFiles ==
    {[name |-> Path("", "a.txt"),   suffix |-> ".txt", size |-> 1],
     [name |-> Path("..", "a.txt"), suffix |-> ".txt", size |-> MAX_FILE_SIZE],
     [name |-> Path("", "a.txt"),   suffix |-> ".txt", size |-> 0],
     [name |-> Path("", "a.txt"),   suffix |-> ".txt", size |-> MAX_FILE_SIZE + 1],
     [name |-> Path("", "a.exe"),   suffix |-> ".exe", size |-> 1]}

\* validators.py lines 175-196: the directories are dropped from the name (the
\* names of UploadFiles hold no character that would be removed).
sanitize_filename(filename) == Basename(filename)

\* validators.py lines 201-274: validate_file gives the sanitized name, and
\* raises ValidationError for a suffix that is not allowed, a file that is too
\* large and an empty one.
validate_file(file) ==
    IF file.suffix \notin ALLOWED_FILE_EXTENSIONS THEN "ValidationError"
    ELSE IF file.size > MAX_FILE_SIZE THEN "ValidationError"
    ELSE IF file.size = 0 THEN "ValidationError"
    ELSE sanitize_filename(file.name)

\* upload_file_to_agent, lines 80-112: a request is refused, with the status
\* given, before anything is written.
UploadRejected(u, arg, file, status) ==
    /\ upload' = [upload EXCEPT ![u] =
            [IdleUpload EXCEPT !.pc = "done", !.arg = arg, !.file = file,
                               !.resp = status]]
    /\ UNCHANGED <<files, disk>>

\* upload_file_to_agent, lines 114-143: the file is written under UPLOAD_DIR
\* and its record committed.
UploadSave(u, a, name) ==
    /\ disk' = disk \cup {UploadPath(UploadFileId(u), name)}
    /\ files' = files \cup {FileRow(UploadFileId(u), a, name)}
    /\ upload' = [upload EXCEPT ![u] =
                    [IdleUpload EXCEPT !.pc = "saved", !.agent_id = a]]

\* Faulty variant of UploadStart: the file is written before it is validated.
UploadStart_WritesBeforeValidating(u) ==
    /\ upload[u].pc = "idle"
    /\ \E arg \in HandlerIdArgs, file \in UploadFiles :
        LET a == validate_uuid(arg)
        IN  IF a = "ValidationError" THEN UploadRejected(u, arg, file, "400")
            ELSE IF a \notin agents THEN UploadRejected(u, arg, file, "404")
            ELSE IF validate_file(file) = "ValidationError"
            THEN /\ disk' = disk \cup {UploadPath(UploadFileId(u), sanitize_filename(file.name))}
                 /\ upload' = [upload EXCEPT ![u] =
                        [IdleUpload EXCEPT !.pc = "done", !.arg = arg, !.file = file,
                                           !.resp = "400"]]
                 /\ UNCHANGED files
            ELSE UploadSave(u, a, validate_file(file))
    /\ UNCHANGED <<agents, storeVars, queryVars, deletion, chatVars>>

\* upload_file_to_agent, lines 79-143: the agent id is validated (400), the
\* agent looked up (404 when it is not there), the file validated (400), then
\* written and recorded.
UploadStart(u) ==
    /\ upload[u].pc = "idle"
    /\ \E arg \in HandlerIdArgs, file \in UploadFiles :
        LET a == validate_uuid(arg)
        IN  IF a = "ValidationError" THEN UploadRejected(u, arg, file, "400")
            ELSE IF a \notin agents THEN UploadRejected(u, arg, file, "404")
            ELSE IF validate_file(file) = "ValidationError"
            THEN UploadRejected(u, arg, file, "400")
            ELSE UploadSave(u, a, validate_file(file))
    /\ UNCHANGED <<agents, storeVars, queryVars, deletion, chatVars>>

\* upload_file_to_agent, line 147, and ingest_file, lines 64-86: the store is
\* opened, the file is read from the disk, split and every split tagged.
UploadLoad(u) ==
    /\ upload[u].pc = "saved"
    /\ \E env \in {"ok", "down"} :
        LET outcome == IngestOutcome(UploadPath(UploadFileId(u), UploadName), env)
        IN  IF outcome = "ok"
            THEN /\ \E n \in 1..MaxChunks :
                        upload' = [upload EXCEPT ![u] =
                                    [@ EXCEPT !.pc = "loaded", !.n = n]]
                 /\ UNCHANGED <<files, disk>>
            ELSE UploadIngestFailed(u, outcome)
    /\ UNCHANGED <<agents, storeVars, queryVars, deletion, chatVars>>

\* Faulty variant of UploadAdd: the splits are added one call at a time.
UploadAdd_OneAtATime(u) ==
    /\ upload[u].pc = "loaded"
    /\ LET a == upload[u].agent_id
           f == UploadFileId(u)
           last == Cardinality(ChunksOfFile(a, f)) + 1 >= upload[u].n
       IN  /\ chroma' = AddDocuments(a,
                            IngestedChunks(a, UploadPath(f, UploadName), f, 1))
           /\ inserted' = InsertedAfterIngest(a, f, 1)
           /\ purged' = PurgedAfterIngest(a, f)
           /\ storeCall' = StoreCall("ingest_file", a, f, "ok", "ok", 1, {})
           /\ upload' = [upload EXCEPT ![u] =
                    IF last THEN [@ EXCEPT !.pc = "done", !.store = "ok", !.resp = "200"]
                    ELSE @]
    /\ UNCHANGED <<dbVars, queryVars, deletion, chatVars>>

\* ingest_file, lines 88-99: add_documents embeds the splits and inserts
\* them in one call on the collection; then the upload is answered.
UploadAdd(u) ==
    /\ upload[u].pc = "loaded"
    /\ LET a == upload[u].agent_id
           f == UploadFileId(u)
           n == upload[u].n
       IN  \E env \in {"ok", "error"} :
            IF env = "ok"
            THEN /\ chroma' = AddDocuments(a,
                                  IngestedChunks(a, UploadPath(f, UploadName), f, n))
                 /\ inserted' = InsertedAfterIngest(a, f, n)
                 /\ purged' = PurgedAfterIngest(a, f)
                 /\ storeCall' = StoreCall("ingest_file", a, f, env, "ok", n, {})
                 /\ upload' = [upload EXCEPT ![u] =
                                [@ EXCEPT !.pc = "done", !.store = "ok", !.resp = "200"]]
                 /\ UNCHANGED <<files, disk>>
            ELSE /\ UploadIngestFailed(u, "StoreError")
                 /\ storeCall' = StoreCall("ingest_file", a, f, env, "StoreError", 0, {})
                 /\ UNCHANGED <<chroma, inserted, purged>>
    /\ UNCHANGED <<agents, queryVars, deletion, chatVars>>

\* delete_agent_file, lines 186-204: a request is refused, with the status
\* given, before anything is removed.
DeleteRejected(d, arg, f, status) ==
    /\ deletion' = [deletion EXCEPT ![d] =
            [IdleDeletion EXCEPT !.pc = "done", !.agent_id = arg, !.file_id = f,
                                 !.resp = status]]
    /\ UNCHANGED <<files, disk>>

\* delete_agent_file, lines 206-215: the file is removed from the disk and
\* the record deleted and committed.
DeleteCommit(d, a, f, rows) ==
    /\ disk' = disk \ {r.filepath : r \in rows}
    /\ files' = files \ rows
    /\ deletion' = [deletion EXCEPT ![d] =
                        [IdleDeletion EXCEPT !.pc = "committed",
                                             !.agent_id = a, !.file_id = f]]

\* Faulty variant of DeleteStart: the record is looked up by file id alone.
DeleteStart_AnyAgent(d) ==
    /\ deletion[d].pc = "idle"
    /\ \E arg \in HandlerIdArgs, f \in FileIds :
        LET a    == validate_uuid(arg)
            rows == {r \in files : r.id = f}
        IN  IF a = "ValidationError" THEN DeleteRejected(d, arg, f, "400")
            ELSE IF rows = {} THEN DeleteRejected(d, a, f, "404")
            ELSE DeleteCommit(d, a, f, rows)
    /\ UNCHANGED <<agents, storeVars, queryVars, upload, chatVars>>

\* delete_agent_file, lines 185-215: the ids are validated (400), the record
\* looked up by file and agent (404 when it is not there), then the file and
\* the record removed.
DeleteStart(d) ==
    /\ deletion[d].pc = "idle"
    /\ \E arg \in HandlerIdArgs, f \in FileIds :
        LET a    == validate_uuid(arg)
            rows == {r \in files : r.id = f /\ r.agent_id = a}
        IN  IF a = "ValidationError" THEN DeleteRejected(d, arg, f, "400")
            ELSE IF rows = {} THEN DeleteRejected(d, a, f, "404")
            ELSE DeleteCommit(d, a, f, rows)
    /\ UNCHANGED <<agents, storeVars, queryVars, upload, chatVars>>

\* Faulty variant of DeleteEmbeddings: a failure of the store fails the deletion.
DeleteEmbeddings_FailsDeletion(d) ==
    /\ deletion[d].pc = "committed"
    /\ \E env \in StoreEnv :
        /\ delete_file(deletion[d].agent_id, deletion[d].file_id, env)
        /\ deletion' = [deletion EXCEPT ![d] =
                [@ EXCEPT !.pc = "done", !.store = DeleteOutcome(env),
                          !.resp = IF DeleteOutcome(env) = "ok" THEN "200" ELSE "500"]]
    /\ UNCHANGED <<dbVars, queryVars, upload, chatVars>>

\* delete_agent_file, lines 217-239: the file's embeddings are deleted from
\* the agent's collection; an exception of the store is logged, and the
\* deletion is answered as if it had gone through.
DeleteEmbeddings(d) ==
    /\ deletion[d].pc = "committed"
    /\ \E env \in StoreEnv :
        /\ delete_file(deletion[d].agent_id, deletion[d].file_id, env)
        /\ deletion' = [deletion EXCEPT ![d] =
                [@ EXCEPT !.pc = "done", !.store = DeleteOutcome(env), !.resp = "200"]]
    /\ UNCHANGED <<dbVars, queryVars, upload, chatVars>>

\* A retrieval on an agent's collection (specialist.py lines 32-33 and 47).
FileRetrieve ==
    \E a \in agents :
        \E docs \in RetrieveChoices(a) :
            /\ retrieve(a, "ok", docs)
            /\ UNCHANGED <<dbVars, queryVars, handlerVars, chatVars>>

\* One agent, no file yet.
FileInit ==
    /\ agents = {"h1"}
    /\ files = {}
    /\ disk = {}
    /\ chroma = [c \in CollectionNames |-> {}]
    /\ inserted = [c \in CollectionNames |-> [f \in FileIds |-> 0]]
    /\ purged = NothingPurged
    /\ storeCall = NoStoreCall
    /\ QueryInit
    /\ HandlerInit
    /\ ChatIdle

FileNext ==
    \/ \E u \in Uploads : UploadStart(u)
    \/ \E u \in Uploads : UploadLoad(u)
    \/ \E u \in Uploads : UploadAdd(u)
    \/ \E d \in Deletes : DeleteStart(d)
    \/ \E d \in Deletes : DeleteEmbeddings(d)
    \/ FileRetrieve

FileSpec == FileInit /\ [][FileNext]_vars

(***************************************************************************)
(* ChatSpec: the chat endpoint around process_query. A server process      *)
(* runs one chat handler at a time (the handler never awaits); several     *)
(* processes serve requests side by side on the same database.             *)
(***************************************************************************)

\* The session ids a request can carry: an id, or none (ChatRequest.session_id
\* is optional).
SessionIds == {"s1", NoneVal}

\* A row of chat_messages; `request` is history, the request that stored it.
Message(session_id, role, content, q) ==
    [session_id |-> session_id, role |-> role, content |-> content, request |-> q]

\* A process is serving no request.
ProcessFree(p) ==
    \A o \in Queries : chat[o].process = p => chat[o].pc = "done"

\* chat, lines 112-127: an exception is answered 500.
ChatError(q) ==
    chat' = [chat EXCEPT ![q] = [@ EXCEPT !.pc = "done", !.resp = "500"]]

\* chat, lines 42-60: the session is looked up and created if it is not there,
\* and the user's message is stored. Without session id the new session has
\* no primary key and its commit raises.
ChatReceive(q) ==
    /\ chat[q].pc = "idle"
    /\ \E p \in Processes, sid \in SessionIds :
        /\ ProcessFree(p)
        /\ IF sid = NoneVal
           THEN /\ chat' = [chat EXCEPT ![q] =
                        [NoChat EXCEPT !.pc = "done", !.process = p, !.resp = "500"]]
                /\ UNCHANGED <<sessions, messages>>
           ELSE /\ sessions' = sessions \cup {sid}
                /\ messages' = messages \cup {Message(sid, "user", QueryText(q), q)}
                /\ chat' = [chat EXCEPT ![q] =
                        [NoChat EXCEPT !.pc = "saved", !.process = p, !.session_id = sid]]
    /\ UNCHANGED <<coordinator, constructed, dbVars, storeVars, queryVars, handlerVars>>

\* Faulty variant of GetCoordinator: every call constructs a Coordinator.
GetCoordinator_AlwaysNew(p) == constructed[p] + 1

\* chat.py lines 17-21: get_coordinator gives the process's Coordinator,
\* constructing it when the global is None. Instances are numbered in the
\* order of their construction.
GetCoordinator(p) ==
    IF coordinator[p] = 0 THEN constructed[p] + 1 ELSE coordinator[p]

\* chat, line 76: the handler gets the Coordinator. Constructing one can raise
\* (its agents open clients and load prompts); the global then stays None.
ChatGetCoordinator(q) ==
    /\ chat[q].pc = "saved"
    /\ LET p == chat[q].process
           c == GetCoordinator(p)
       IN  \/ /\ coordinator' = [coordinator EXCEPT ![p] = c]
              /\ constructed' = [constructed EXCEPT ![p] =
                                    IF c = coordinator[p] THEN @ ELSE @ + 1]
              /\ chat' = [chat EXCEPT ![q] = [@ EXCEPT !.pc = "ready", !.coord = c]]
           \/ /\ coordinator[p] = 0
              /\ ChatError(q)
              /\ UNCHANGED <<coordinator, constructed>>
    /\ UNCHANGED <<sessions, messages, dbVars, storeVars, queryVars, handlerVars>>

\* chat, lines 77-81: process_query runs for the request.
ChatProcess(q) ==
    /\ chat[q].pc = "ready"
    /\ QueryStep(q)

\* Faulty variant of ChatFailed: the failure is stored as the assistant's
\* message.
ChatFailed_StoresError(q) ==
    /\ chat[q].pc = "ready"
    /\ pc[q] = "failed"
    /\ messages' = messages \cup
            {Message(chat[q].session_id, "assistant", result[q].error, q)}
    /\ ChatError(q)
    /\ UNCHANGED <<sessions, coordinator, constructed, dbVars, storeVars, queryVars,
                   handlerVars>>

\* chat, lines 112-127: process_query raised; the request is answered 500.
ChatFailed(q) ==
    /\ chat[q].pc = "ready"
    /\ pc[q] = "failed"
    /\ ChatError(q)
    /\ UNCHANGED <<sessions, messages, coordinator, constructed, dbVars, storeVars,
                   queryVars, handlerVars>>

\* chat, lines 91-111: process_query returned; the assistant's message is
\* stored with the agent_id of the request and the answer sent. The commit
\* raises when that agent_id names no row of the agents table (foreign key).
ChatAnswer(q) ==
    /\ chat[q].pc = "ready"
    /\ pc[q] = "done"
    /\ IF RequestedAgent(q) = NoneVal \/ RequestedAgent(q) \in agents
       THEN /\ messages' = messages \cup
                    {Message(chat[q].session_id, "assistant",
                             result[q].dict.final_answer, q)}
            /\ chat' = [chat EXCEPT ![q] = [@ EXCEPT !.pc = "done", !.resp = "200"]]
       ELSE /\ ChatError(q)
            /\ UNCHANGED messages
    /\ UNCHANGED <<sessions, coordinator, constructed, dbVars, storeVars, queryVars,
                   handlerVars>>

\* The state Spec starts from when agent h1 is left, h2 having been deleted
\* after its upload.
ChatInit == Init /\ agents = {"h1"}

ChatNext ==
    \/ \E q \in Queries : ChatReceive(q)
    \/ \E q \in Queries : ChatGetCoordinator(q)
    \/ \E q \in Queries : ChatProcess(q)
    \/ \E q \in Queries : ChatFailed(q)
    \/ \E q \in Queries : ChatAnswer(q)
    \/ \E a \in AgentIds : DeleteAgent(a)

ChatSpec == ChatInit /\ [][ChatNext]_vars

(***************************************************************************)
(* The retrieval store's contract, checked under StoreSpec. Every step of  *)
(* StoreSpec is one call on a store instance, and storeCall' is the record *)
(* of that call.                                                           *)
(***************************************************************************)

RetrieveReturned ==
    storeCall.op = "retrieve" /\ storeCall.outcome = "ok"

\* C3: isolation. A retrieval made through a store bound to agent A's
\* collection returns only chunks that were ingested through a store bound to
\* that same collection (never one ingested for another agent or into the
\* default collection); distinct agent identifiers select distinct collections
\* and none of them selects the default collection.
C3_Isolation ==
    /\ RetrieveReturned =>
          \A c \in storeCall.docs : c.owner = storeCall.agent_id
    /\ \A a \in AgentIds :
          /\ CollectionName(a) # CollectionName(NoneVal)
          /\ \A b \in AgentIds : a # b => CollectionName(a) # CollectionName(b)

\* A retrieval through agent h1's store returned chunks while the collections
\* of h2 and the default collection held chunks too.
C3_Witness ==
    /\ RetrieveReturned
    /\ storeCall.agent_id = "h1"
    /\ storeCall.docs # {}
    /\ chroma[CollectionName("h2")] # {}
    /\ chroma[CollectionName(NoneVal)] # {}

\* C4: a delete_file(F) that returns leaves no chunk tagged F in the
\* collection, leaves every chunk with another tag and every other collection
\* as they were, and returns the number of chunks inserted for F (by however
\* many ingest calls) since F was last deleted.
C4_DeleteRemovesExactlyTheFile ==
    [][ (storeCall'.op = "delete_file" /\ storeCall'.outcome = "ok") =>
          LET coll == CollectionName(storeCall'.agent_id)
              f    == storeCall'.file_id
          IN  /\ Tagged(chroma'[coll], f) = {}
              /\ NotTagged(chroma'[coll], f) = NotTagged(chroma[coll], f)
              /\ \A other \in CollectionNames \ {coll} : chroma'[other] = chroma[other]
              /\ storeCall'.ret = inserted[coll][f]
      ]_vars

\* delete_file returned 3, more than one ingest call makes, and a chunk of
\* another file is still in the collection.
C4_Witness ==
    /\ storeCall.op = "delete_file"
    /\ storeCall.outcome = "ok"
    /\ storeCall.ret > MaxChunks
    /\ NotTagged(chroma[CollectionName(storeCall.agent_id)], storeCall.file_id) # {}

\* C5: a delete_file(F) that reaches a collection holding no chunk tagged F
\* returns 0, raises nothing and leaves every collection unchanged.
C5_DeleteOfAbsentFile ==
    [][ ( /\ storeCall'.op = "delete_file"
          /\ storeCall'.env = "ok"
          /\ Tagged(chroma[CollectionName(storeCall'.agent_id)], storeCall'.file_id) = {} )
        => /\ storeCall'.outcome = "ok"
           /\ storeCall'.ret = 0
           /\ chroma' = chroma
      ]_vars

\* A delete_file(F) returned 0 right after F's chunks had been deleted (the
\* second delete of the same file), with other chunks still stored.
C5_Witness ==
    /\ storeCall.op = "delete_file"
    /\ storeCall.outcome = "ok"
    /\ storeCall.ret = 0
    /\ purged = <<CollectionName(storeCall.agent_id), storeCall.file_id>>
    /\ chroma[CollectionName(storeCall.agent_id)] # {}

\* C6: a retrieval returns a chunk tagged F only if F was ingested into that
\* collection after the last delete_file(F) on it returned: once F is deleted,
\* no retrieval returns a chunk of F until F is ingested again.
C6_NoRetrievalAfterDelete ==
    RetrieveReturned =>
        \A c \in storeCall.docs :
            c.file_id # NoneVal =>
                inserted[CollectionName(storeCall.agent_id)][c.file_id] > 0

\* A retrieval returned chunks from a collection whose file F had been
\* deleted and not ingested again.
C6_Witness ==
    /\ RetrieveReturned
    /\ storeCall.docs # {}
    /\ purged[1] = CollectionName(storeCall.agent_id)
    /\ inserted[purged[1]][purged[2]] = 0


\* An ingest_file call returned the count of the chunks it inserted.
IngestReturned == storeCall.op = "ingest_file" /\ storeCall.outcome = "ok"

\* C14: an ingest_file call that returns has inserted its chunks, each tagged
\* with the file identifier given and the source file's name, into the
\* collection its store is bound to and into no other, on top of what was
\* there, and returns their number.
C14_IngestTagsAndCounts ==
    [][ (storeCall'.op = "ingest_file" /\ storeCall'.outcome = "ok") =>
            LET c   == CollectionName(storeCall'.agent_id)
                new == chroma'[c] \ chroma[c]
            IN  /\ chroma[c] \subseteq chroma'[c]
                /\ Cardinality(new) = storeCall'.ret
                /\ \A ch \in new :
                        /\ ch.file_id = storeCall'.file_id
                        /\ ch.source_file = Basename(ch.source)
                        /\ ch.owner = storeCall'.agent_id
                /\ \A d \in CollectionNames \ {c} : chroma'[d] = chroma[d]
      ]_vars

\* An ingest returned several chunks, added to a collection that held
\* another file's already.
C14_Witness ==
    /\ IngestReturned
    /\ storeCall.ret > 1
    /\ \E ch \in chroma[CollectionName(storeCall.agent_id)] :
            ch.file_id # storeCall.file_id

\* C15: ingest_file raises the store-unavailable error when ChromaDB was not
\* reached and raises as well when no text was extracted from the file, so
\* that a call which ends without error has inserted at least one chunk; and
\* a call that raises inserts nothing.
C15_IngestFailuresAreErrors ==
    [][ storeCall'.op = "ingest_file" =>
            /\ storeCall'.env = "down" => storeCall'.outcome = "ValueError"
            /\ storeCall'.outcome # "None"
            /\ storeCall'.outcome = "ok" => storeCall'.ret > 0
            /\ storeCall'.outcome # "ok" => chroma' = chroma
      ]_vars

\* The chunks of a collection that a retrieval can return for a file.
RetrievableOf(coll, file_id) == {Tagged(docs, file_id) : docs \in RetrieveChoicesIn(coll)}

\* C17 as stated: ingesting under another identifier leaves the chunks of
\* every other identifier in place and what retrievals return of them as it
\* was.
C17_RetrievalUnaffected ==
    [][ (storeCall'.op = "ingest_file" /\ storeCall'.outcome = "ok") =>
            \A c \in CollectionNames : \A g \in FileIds \ {storeCall'.file_id} :
                /\ Tagged(chroma'[c], g) = Tagged(chroma[c], g)
                /\ RetrievableOf(chroma'[c], g) = RetrievableOf(chroma[c], g)
      ]_vars

\* C17 amended: ingesting under another identifier leaves the chunks of every
\* other identifier in place and unchanged, and each of them can still be
\* returned by a retrieval; that of a collection of no more chunks than the
\* retriever returns still returns them all.
C17_ChunksStayInPlace ==
    [][ (storeCall'.op = "ingest_file" /\ storeCall'.outcome = "ok") =>
            \A c \in CollectionNames : \A g \in FileIds \ {storeCall'.file_id} :
                /\ Tagged(chroma'[c], g) = Tagged(chroma[c], g)
                /\ \A ch \in Tagged(chroma[c], g) :
                        \E docs \in RetrieveChoicesIn(chroma'[c]) : ch \in docs
                /\ Cardinality(chroma'[c]) <= RetrieverK =>
                        RetrievableOf(chroma'[c], g) = {Tagged(chroma[c], g)}
      ]_vars

\* A file was ingested under F2 into a collection holding F1's chunks, and
\* the collection has now more chunks than the retriever returns.
C17_Witness ==
    /\ IngestReturned
    /\ storeCall.file_id = "F2"
    /\ LET coll == chroma[CollectionName(storeCall.agent_id)]
       IN  /\ Cardinality(Tagged(coll, "F1")) > 1
           /\ Cardinality(coll) > RetrieverK

\* C24: a store is bound at construction to one collection, the default one
\* without an agent id and the agent's own otherwise, and whatever calls were
\* made before, an ingest_file, a delete_file or a retrieval through it reads
\* and changes that collection only; a call that fails changes none.
C24_OneCollectionPerStore ==
    [][ /\ CollectionName(NoneVal) = "nexus_mind_docs"
        /\ \A a \in AgentIds : CollectionName(a) = "agent_" \o a
        /\ storeCall'.outcome = "ok" =>
              LET c == CollectionName(storeCall'.agent_id)
              IN  /\ \A n \in CollectionNames \ {c} : chroma'[n] = chroma[n]
                  /\ storeCall'.op = "retrieve" =>
                        (storeCall'.docs \subseteq chroma[c] /\ chroma'[c] = chroma[c])
                  /\ storeCall'.op = "delete_file" =>
                        /\ chroma'[c] \subseteq chroma[c]
                        /\ Cardinality(chroma[c] \ chroma'[c]) = storeCall'.ret
                  /\ storeCall'.op = "ingest_file" => chroma[c] \subseteq chroma'[c]
        /\ storeCall'.outcome \notin {"ok", "none"} => chroma' = chroma
      ]_vars

\* A delete_file through the default store removed chunks of a file whose
\* identifier also tags chunks in the collections of both agents.
C24_Witness ==
    /\ storeCall.op = "delete_file" /\ storeCall.outcome = "ok"
    /\ storeCall.agent_id = NoneVal
    /\ storeCall.ret > 0
    /\ \A a \in AgentIds :
            Tagged(chroma[CollectionName(a)], storeCall.file_id) # {}

(***************************************************************************)
(* The pipeline's contract, checked under Spec                             *)
(***************************************************************************)

\* The stage was invoked by query q.
Invoked(q, stage) == \E i \in 1..Len(calls[q]) : calls[q][i] = stage

\* The order of the stages.
StageOrder == <<"router", "specialist", "auditor">>

IsPrefix(s, t) == Len(s) <= Len(t) /\ \A i \in 1..Len(s) : s[i] = t[i]

\* A stage was invoked, is over, and left no output: its call failed.
RouterFailed(q) ==
    Invoked(q, "router") /\ "router" \notin running[q] /\ routing[q] = NoRouting

SpecialistFailed(q) ==
    Invoked(q, "specialist") /\ "specialist" \notin running[q] /\ draft[q] = NoDraft

AuditorFailed(q) ==
    Invoked(q, "auditor") /\ "auditor" \notin running[q] /\ audit[q] = NoAudit

\* process_query returned on the routed path.
ReturnedRouted(q) == result[q].kind = "returned" /\ calls[q] # <<>>

\* C1: a query submitted while the roster is empty returns at once the fixed
\* no-agents message with the label "System" and no sources, without invoking
\* any stage; and nothing is invoked for it afterwards.
C1_EmptyRosterShortCircuits ==
    [][ \A q \in Queries :
          /\ (pc[q] = "idle" /\ pc'[q] # "idle" /\ agents = {}) =>
                /\ pc'[q] = "done"
                /\ result'[q].kind = "returned"
                /\ result'[q].dict =
                      [final_answer |-> "No agents are available. Please create at least one agent in the Settings page to get started.",
                       agent_name |-> "System",
                       sources |-> {}]
                /\ calls'[q] = <<>>
          /\ (pc[q] = "done" /\ calls[q] = <<>>) =>
                /\ pc'[q] = "done"
                /\ calls'[q] = <<>>
                /\ result'[q] = result[q]
      ]_vars

\* A query got the no-agents answer with no stage invoked, after another query
\* had been routed on the roster that has been emptied since.
C1_Witness ==
    \E q, other \in Queries :
        /\ pc[q] = "done"
        /\ calls[q] = <<>>
        /\ result[q].dict.agent_name = "System"
        /\ Invoked(other, "router")

\* C2: when the Auditor's call fails, process_query raises the audit failure
\* and returns nothing: the draft is not handed to the caller.
C2_AuditFailureIsRaised ==
    \A q \in Queries :
        AuditorFailed(q) =>
            /\ pc[q] = "failed"
            /\ result[q].kind = "raised"
            /\ result[q].stage = "auditor"
            /\ result[q].dict = NoDict

\* The Auditor failed on a query whose draft was there.
C2_Witness ==
    \E q \in Queries :
        /\ AuditorFailed(q)
        /\ draft[q].answer = "draft answer"

\* C7: within a query the stages are invoked in the order Router, Specialist,
\* Auditor, each at most once; at most one stage runs at a time; the
\* Specialist is invoked only once the Router has returned a decision and the
\* Auditor only once the Specialist has returned a draft; and a routed result
\* is returned only after all three have run.
C7_StagesInOrder ==
    \A q \in Queries :
        /\ IsPrefix(calls[q], StageOrder)
        /\ Cardinality(running[q]) <= 1
        /\ Invoked(q, "specialist") => (routing[q] # NoRouting /\ "router" \notin running[q])
        /\ Invoked(q, "auditor") => (draft[q] # NoDraft /\ "specialist" \notin running[q])
        /\ ReturnedRouted(q) =>
              (calls[q] = StageOrder /\ running[q] = {} /\ audit[q] # NoAudit)

\* A query went through the three stages and returned while the other one was
\* inside a stage.
C7_Witness ==
    \E q, other \in Queries :
        /\ ReturnedRouted(q)
        /\ calls[q] = StageOrder
        /\ running[other] # {}

\* C8: a failure of the Router or of the Specialist aborts the query: the
\* failed stage is not invoked again, no later stage is invoked, and
\* process_query raises the failure instead of returning a result.
C8_StageFailureAborts ==
    \A q \in Queries :
        /\ RouterFailed(q) =>
              /\ calls[q] = <<"router">>
              /\ pc[q] = "failed"
              /\ result[q].kind = "raised"
              /\ result[q].stage = "router"
              /\ result[q].dict = NoDict
        /\ SpecialistFailed(q) =>
              /\ calls[q] = <<"router", "specialist">>
              /\ pc[q] = "failed"
              /\ result[q].kind = "raised"
              /\ result[q].stage = "specialist"
              /\ result[q].dict = NoDict

\* The Router failed on one query and the Specialist's model call on another.
C8_Witness ==
    \E q, other \in Queries :
        /\ RouterFailed(q)
        /\ SpecialistFailed(other)
        /\ result[other].error = "LLMError"

\* C9: a returned result has exactly the fields final_answer, agent_name and
\* sources; on the routed path they are the AuditResult's final_answer, the
\* RoutingDecision's agent_name and the draft's sources of that same query.
C9_ResultFields ==
    \A q \in Queries :
        result[q].kind = "returned" =>
            /\ DOMAIN result[q].dict = {"final_answer", "agent_name", "sources"}
            /\ ReturnedRouted(q) =>
                  /\ result[q].dict.final_answer = audit[q].final_answer
                  /\ result[q].dict.agent_name = routing[q].agent_name
                  /\ result[q].dict.sources = draft[q].sources

\* Two queries returned on the routed path with different agents, different
\* answers and different sources.
C9_Witness ==
    \E q, other \in Queries :
        /\ ReturnedRouted(q)
        /\ ReturnedRouted(other)
        /\ result[q].dict.agent_name # result[other].dict.agent_name
        /\ result[q].dict.final_answer # result[other].dict.final_answer
        /\ result[q].dict.sources # {}
        /\ result[q].dict.sources # result[other].dict.sources

C11_VerdictFollowsPolicy ==
    \A q \in Queries :
        audit[q] # NoAudit =>
            /\ audit[q].is_safe => audit[q].final_answer = draft[q].answer
            /\ ~audit[q].is_safe => audit[q].feedback # NoneVal


\* C18: whenever the Router is invoked, the roster it reads from the agents
\* table has at least one agent, agents being deleted meanwhile or not.
C18_RouterNeverSeesEmptyRoster ==
    \A q \in Queries : roster[q] # NoRoster => roster[q] # {}

\* C19: each route_query call reads the roster as the agents table holds it
\* at the time of the call: an agent deleted before the call is not in it,
\* whatever an earlier call read.
C19_RosterReadAtCallTime ==
    [][ \A q \in Queries :
            (pc[q] = "route" /\ pc'[q] = "routing") => roster'[q] = agents
      ]_vars

\* Two queries were routed on different rosters: an agent offered for the
\* first had been deleted when the second was routed.
C19_Witness ==
    \E q, other \in Queries :
        /\ roster[q] # NoRoster
        /\ roster[other] # NoRoster
        /\ roster[other] # {}
        /\ \E a \in roster[q] : a \notin roster[other]

\* C20: the Specialist's retriever reads the collection of the agent named by
\* the RoutingDecision of the same query (the default collection when it
\* names none): what it returns is a retrieval on that collection, and every
\* chunk of it was added by a store bound to that agent.
C20_RetrievalFromRoutedCollection ==
    [][ \A q \in Queries :
            /\ (pc[q] = "draft" /\ pc'[q] = "drafting") =>
                    retrieved'[q] \in RetrieveChoices(routing[q].agent_id)
            /\ \A ch \in retrieved[q] : ch.owner = routing[q].agent_id
      ]_vars

\* Two queries routed to different agents each retrieved chunks.
C20_Witness ==
    \E q, other \in Queries :
        /\ retrieved[q] # {}
        /\ retrieved[other] # {}
        /\ routing[q].agent_id # routing[other].agent_id

\* C21: the confidence of a routing decision never gates the pipeline: for
\* every decision the Router returns, whatever its confidence, process_query
\* goes on without a result, its next step invokes the Specialist, and the
\* step after the draft invokes the Auditor.
C21_ConfidenceNeverGates ==
    [][ \A q \in Queries :
            /\ (pc[q] = "routing" /\ routing'[q] \in RoutingDecisions) =>
                    (pc'[q] = "draft" /\ result'[q] = NoResult)
            /\ (pc[q] = "draft" /\ pc'[q] # "draft") =>
                    calls'[q] = <<"router", "specialist">>
            /\ (pc[q] = "audit" /\ pc'[q] # "audit") =>
                    calls'[q] = StageOrder
      ]_vars

\* Two queries, routed with the lowest and with the highest confidence, both
\* went through the Specialist and the Auditor and returned.
C21_Witness ==
    \E q, other \in Queries :
        /\ routing[q].confidence = "0.0"
        /\ routing[other].confidence = "1.0"
        /\ ReturnedRouted(q) /\ calls[q] = StageOrder
        /\ ReturnedRouted(other) /\ calls[other] = StageOrder

\* C22: the sources of a draft are exactly the distinct sources of the chunks
\* retrieved for its query: every retrieved chunk's source is listed, once
\* however many of the chunks share it, and nothing else is.
C22_SourcesAreThoseRetrieved ==
    \A q \in Queries :
        draft[q] # NoDraft =>
            /\ \A c \in retrieved[q] : c.source \in draft[q].sources
            /\ \A s \in draft[q].sources : \E c \in retrieved[q] : c.source = s
            /\ Cardinality(draft[q].sources) <= Cardinality(retrieved[q])
            /\ \A c \in retrieved[q] :
                    c.source_file # NoneVal => Basename(c.source) = c.source_file

\* A draft made from two chunks of one file lists that file once, while other
\* files are stored that were not retrieved for it.
C22_Witness ==
    \E q \in Queries :
        /\ draft[q] # NoDraft
        /\ Cardinality(retrieved[q]) = 2
        /\ Cardinality(draft[q].sources) = 1
        /\ \E n \in CollectionNames : \E c \in chroma[n] :
                c.source \notin draft[q].sources

\* C23: the Specialist builds its chain with the routed agent's stored directive
\* when the agent has one and with the generic directive otherwise. No agent
\* record holds a directive, so every Specialist call that got as far as its
\* store uses the generic one.
C23_DirectiveResolved ==
    \A q \in Queries :
        (/\ Invoked(q, "specialist")
         /\ ~(result[q].kind = "raised" /\ result[q].stage = "specialist"
                /\ result[q].error \in {"ValueError", "StoreError"}))
            => directive[q] = GENERIC_PROMPT

\* C25: process_query changes nothing it does not own: on every path (the
\* no-agents return, the routed return, a failure at any stage) each of its
\* steps leaves the agents table, the files table, the uploaded files and
\* every collection as they were.
C25_QueryMutatesNothing ==
    [][ (\E q \in Queries : pc'[q] # pc[q]) =>
            /\ agents' = agents
            /\ files' = files
            /\ disk' = disk
            /\ chroma' = chroma
      ]_vars

\* One query returned an answer drawn from stored chunks and another failed,
\* with the roster and the collections still filled.
C25_Witness ==
    \E q, other \in Queries :
        /\ ReturnedRouted(q)
        /\ retrieved[q] # {}
        /\ pc[other] = "failed"
        /\ agents # {}
        /\ \A n \in CollectionNames : chroma[n] # {}

\* What process_query holds for one query.
QueryState(q) ==
    <<pc[q], routing[q], draft[q], audit[q], result[q], calls[q], running[q],
      retrieved[q], directive[q], auditRequest[q]>>

\* C26: queries processed at once through the one Coordinator share no
\* per-query state: a step of one query leaves what the other holds as it was,
\* and the result a query returns is assembled from its own decision, draft
\* and verdict, however the two queries interleave.
C26_QueriesShareNothing ==
    [][ \A q \in Queries :
            pc'[q] # pc[q] =>
                /\ \A o \in Queries \ {q} : QueryState(o)' = QueryState(o)
                /\ (pc[q] = "auditing" /\ pc'[q] = "done") =>
                        result'[q] = Returned(FinalResult(audit'[q], routing[q], draft[q]))
      ]_vars

\* A query returned while the other, routed to another agent and drafted from
\* other sources, was still with the Auditor.
C26_Witness ==
    \E q, other \in Queries :
        /\ ReturnedRouted(q)
        /\ pc[other] = "auditing"
        /\ routing[other].agent_name # routing[q].agent_name
        /\ draft[other].sources # draft[q].sources
        /\ calls[other] = StageOrder

\* C27: a failed query tells its caller which stage failed: two queries that
\* failed at different stages (routing, retrieval or generation in the
\* Specialist, auditing) are told different errors.
C27_FailuresDistinguishable ==
    \A q, other \in Queries :
        (/\ result[q].kind = "raised"
         /\ result[other].kind = "raised"
         /\ result[q].stage # result[other].stage)
            => SurfacedError(result[q]) # SurfacedError(result[other])

\* C29: when the routing decision names no agent, the Specialist retrieves
\* from the default collection and from no agent's collection, and builds its
\* chain with the generic directive.
C29_NoAgentMeansDefaultStore ==
    [][ \A q \in Queries :
            (pc[q] = "draft" /\ pc'[q] = "drafting" /\ routing[q].agent_id \in Falsy) =>
                /\ retrieved'[q] \in RetrieveChoicesIn(chroma["nexus_mind_docs"])
                /\ \A a \in AgentIds : retrieved'[q] \cap chroma[CollectionName(a)] = {}
                /\ directive'[q] = GENERIC_PROMPT
      ]_vars

\* A query routed to no agent was answered from a chunk of the default
\* collection while both agents' collections held chunks.
C29_Witness ==
    \E q \in Queries :
        /\ routing[q] # NoRouting
        /\ routing[q].agent_id = NoneVal
        /\ ReturnedRouted(q)
        /\ retrieved[q] # {}
        /\ directive[q] = GENERIC_PROMPT
        /\ \A a \in AgentIds : chroma[CollectionName(a)] # {}

\* C30: what the Auditor sends for review holds the original query text, the
\* draft's answer and the draft's sources.
C30_AuditRequestHasSources ==
    \A q \in Queries :
        Invoked(q, "auditor") =>
            /\ auditRequest[q].query = QueryText(q)
            /\ auditRequest[q].response = draft[q].answer
            /\ "sources" \in DOMAIN auditRequest[q]
            /\ auditRequest[q].sources = draft[q].sources

\* C33: the collection read while drafting belongs to an agent of the roster
\* the Router was given for the query: when the decision names an agent and
\* the Specialist has retrieved, that agent was in the roster read for the
\* routing.
C33_RetrievalOnlyForRosterAgents ==
    \A q \in Queries :
        (directive[q] # NoneVal /\ routing[q].agent_id \notin Falsy) =>
            routing[q].agent_id \in roster[q]

\* Two queries met the same roster and got the same answers from the
\* completion service and the store, failures included.
SameAnswers(q, other) ==
    /\ pc[q] = pc[other]
    /\ roster[q] = roster[other]
    /\ routing[q] = routing[other]
    /\ draft[q].answer = draft[other].answer
    /\ audit[q] = audit[other]
    /\ result[q].error = result[other].error

\* C34: the agent_id argument of process_query has no effect: two calls that
\* differ in it and meet the same roster, collections and answers invoke the
\* same stages, retrieve the same chunks under the same directive, send the
\* same draft to the Auditor and return the same result.
C34_RequestedAgentIgnored ==
    \A q, other \in Queries :
        (RequestedAgent(q) # RequestedAgent(other) /\ SameAnswers(q, other)) =>
            /\ calls[q] = calls[other]
            /\ running[q] = running[other]
            /\ retrieved[q] = retrieved[other]
            /\ directive[q] = directive[other]
            /\ draft[q] = draft[other]
            /\ DOMAIN auditRequest[q] = DOMAIN auditRequest[other]
            /\ auditRequest[q] # NoRequest =>
                    auditRequest[q].response = auditRequest[other].response
            /\ result[q] = result[other]

\* The query that named agent h1 and the query that named none were both
\* routed to h2, drafted from h2's chunks and returned the same result.
C34_Witness ==
    \E q, other \in Queries :
        /\ RequestedAgent(q) = "h1" /\ RequestedAgent(other) = NoneVal
        /\ SameAnswers(q, other)
        /\ routing[q].agent_id = "h2"
        /\ ReturnedRouted(q) /\ ReturnedRouted(other)
        /\ retrieved[q] # {}
        /\ result[q] = result[other]

(***************************************************************************)
(* The file handlers' contract, checked under FileSpec                     *)
(***************************************************************************)

\* The collection an upload's agent is bound to.
UploadCollection(u) == chroma[CollectionName(upload[u].agent_id)]

\* The record of an upload's file is in the files table.
HasRecord(u) == \E r \in files : r.id = UploadFileId(u)

\* A delete request for the upload's file came in and found the record.
DeleteBegun(u) ==
    \E d \in Deletes :
        /\ deletion[d].pc # "idle"
        /\ deletion[d].file_id = UploadFileId(u)
        /\ deletion[d].resp \notin {"400", "404"}

\* A delete request for the upload's file is over, its call on the store
\* having returned.
DeleteFinished(u) ==
    \E d \in Deletes :
        /\ deletion[d].pc = "done"
        /\ deletion[d].file_id = UploadFileId(u)
        /\ deletion[d].resp = "200"
        /\ deletion[d].store = "ok"

\* C12: once an upload of file F and a delete of F have both finished, the
\* store having answered the delete, and F's record is gone, no chunk tagged
\* F is left in the agent's collection, however the two requests interleave.
C12_NoOrphanedChunks ==
    \A u \in Uploads :
        (upload[u].pc = "done" /\ DeleteFinished(u) /\ ~HasRecord(u)) =>
            Tagged(UploadCollection(u), UploadFileId(u)) = {}

IngestFailed(u) == upload[u].pc = "done" /\ upload[u].store \notin {"ok", NoneVal}

\* C16: when the ingestion of an upload fails, the upload is still answered
\* as a success, the file's record stays committed (until a delete request
\* removes it) and the collection holds no chunk of the file.
C16_IngestFailureKeepsRecord ==
    \A u \in Uploads :
        IngestFailed(u) =>
            /\ upload[u].resp = "200"
            /\ HasRecord(u) \/ DeleteBegun(u)
            /\ Tagged(UploadCollection(u), UploadFileId(u)) = {}

\* The insertion failed on one upload and the store could not be reached on
\* another, and both records are there.
C16_Witness ==
    \E u, v \in Uploads :
        /\ IngestFailed(u) /\ upload[u].store = "StoreError"
        /\ IngestFailed(v) /\ upload[v].store = "ValueError"
        /\ HasRecord(u) /\ HasRecord(v)

\* The removal of a deleted file's chunks raised.
PurgeFailed(d) == deletion[d].pc = "done" /\ deletion[d].store \notin {"ok", NoneVal}

\* C31: when the store fails to remove a file's chunks during
\* delete_agent_file, the deletion still succeeds: it is answered as a
\* success, and the file's record and the stored file stay removed.
C31_PurgeFailureKeepsDeletion ==
    \A d \in Deletes :
        PurgeFailed(d) =>
            /\ deletion[d].resp = "200"
            /\ ~\E r \in files : r.id = deletion[d].file_id
            /\ UploadPath(deletion[d].file_id, UploadName) \notin disk

\* The store could not be reached for one deletion and raised for another;
\* the chunks of the first file are still in the agent's collection.
C31_Witness ==
    \E d, e \in Deletes :
        /\ PurgeFailed(d) /\ deletion[d].store = "ValueError"
        /\ PurgeFailed(e) /\ deletion[e].store = "StoreError"
        /\ Tagged(chroma[CollectionName(deletion[d].agent_id)], deletion[d].file_id) # {}

\* No upload and no deletion is under way.
Quiescent ==
    /\ \A u \in Uploads : upload[u].pc \in {"idle", "done"}
    /\ \A d \in Deletes : deletion[d].pc \in {"idle", "done"}

\* C32: whenever no upload and no deletion is under way, every chunk in an
\* agent's collection is tagged with the id of a file record that exists and
\* belongs to that agent.
C32_IndexConsistency ==
    Quiescent =>
        \A a \in AgentIds : \A c \in chroma[CollectionName(a)] :
            \E r \in files : r.id = c.file_id /\ r.agent_id = a

\* C35: delete_agent_file(A, F) removes F's record and stored file only when
\* the record belongs to agent A, and removes nothing else; when F has no
\* record or its record belongs to another agent the request is answered
\* not-found and no record, no stored file and no chunk is removed.
C35_DeleteOnlyOwnFile ==
    [][ \A d \in Deletes :
            (deletion[d].pc = "idle" /\ deletion'[d].pc # "idle"
                /\ validate_uuid(deletion'[d].agent_id) # "ValidationError") =>
                LET a    == deletion'[d].agent_id
                    f    == deletion'[d].file_id
                    rows == {r \in files : r.id = f /\ r.agent_id = a}
                IN  IF rows # {}
                    THEN /\ deletion'[d].pc = "committed"
                         /\ files' = files \ rows
                         /\ disk' = disk \ {r.filepath : r \in rows}
                         /\ chroma' = chroma
                    ELSE /\ deletion'[d].pc = "done"
                         /\ deletion'[d].resp = "404"
                         /\ files' = files /\ disk' = disk /\ chroma' = chroma
      ]_vars

\* A delete request naming another agent than the file's owner was answered
\* not-found, and the file's record, stored file and chunks are there.
C35_Witness ==
    \E d \in Deletes :
        /\ deletion[d].pc = "done" /\ deletion[d].resp = "404"
        /\ \E r \in files :
                /\ r.id = deletion[d].file_id
                /\ r.agent_id # deletion[d].agent_id
                /\ r.filepath \in disk
                /\ Tagged(chroma[CollectionName(r.agent_id)], r.id) # {}

\* An upload was refused.
Refused(u) == upload[u].pc = "done" /\ upload[u].resp \in {"400", "404"}

\* C36: an upload with a malformed agent id, for an agent that does not
\* exist or with a file that fails validation is refused, and a refused
\* upload changes nothing: no file is written, no record created and no chunk
\* inserted.
C36_RejectedUploadChangesNothing ==
    [][ \A u \in Uploads :
            (upload[u].pc = "idle" /\ upload'[u].pc # "idle") =>
                IF upload'[u].pc = "saved"
                THEN /\ upload'[u].agent_id \in agents
                     /\ UploadPath(UploadFileId(u), UploadName) \in disk'
                     /\ HasRecord(u)'
                ELSE /\ upload'[u].pc = "done"
                     /\ upload'[u].resp =
                            IF validate_uuid(upload'[u].arg) = "ValidationError" THEN "400"
                            ELSE IF validate_uuid(upload'[u].arg) \notin agents THEN "404"
                            ELSE "400"
                     /\ \/ validate_uuid(upload'[u].arg) = "ValidationError"
                        \/ validate_uuid(upload'[u].arg) \notin agents
                        \/ validate_file(upload'[u].file) = "ValidationError"
                     /\ files' = files /\ disk' = disk /\ chroma' = chroma
      ]_vars

\* One upload was refused for its file and another for its agent id, and
\* neither left a file, a record or a chunk.
C36_Witness ==
    \E u, v \in Uploads :
        /\ Refused(u) /\ validate_uuid(upload[u].arg) \in agents
        /\ Refused(v) /\ validate_uuid(upload[v].arg) = "ValidationError"
        /\ files = {} /\ disk = {}
        /\ \A n \in CollectionNames : chroma[n] = {}

(***************************************************************************)
(* The chat endpoint's contract, checked under ChatSpec                    *)
(***************************************************************************)

\* The messages a request stored, by role.
Stored(q, role) == {m \in messages : m.request = q /\ m.role = role}

\* C37: the user's message is stored before the Coordinator is called, and
\* the assistant's message only after process_query has returned, with the
\* answer it returned; when process_query fails the session keeps the user's
\* message and no assistant message is stored for the request.
C37_MessagesFollowTheQuery ==
    \A q \in Queries :
        /\ (chat[q].coord # 0 \/ pc[q] # "idle") =>
                Stored(q, "user") =
                    {Message(chat[q].session_id, "user", QueryText(q), q)}
        /\ Stored(q, "assistant") # {} =>
                /\ pc[q] = "done"
                /\ result[q].kind = "returned"
                /\ Stored(q, "assistant") =
                        {Message(chat[q].session_id, "assistant",
                                 result[q].dict.final_answer, q)}
        /\ pc[q] = "failed" =>
                (Stored(q, "user") # {} /\ Stored(q, "assistant") = {})

\* In one session, a request was answered and left both messages, and a
\* request whose process_query failed was answered 500 and left its user
\* message alone.
C37_Witness ==
    \E q, other \in Queries :
        /\ chat[q].resp = "200"
        /\ Stored(q, "user") # {} /\ Stored(q, "assistant") # {}
        /\ pc[other] = "failed" /\ chat[other].resp = "500"
        /\ Stored(other, "user") # {} /\ Stored(other, "assistant") = {}
        /\ chat[q].session_id = chat[other].session_id

\* C38: a process constructs at most one Coordinator: once its global is set
\* it is never replaced, and every request the process serves gets that same
\* instance from get_coordinator.
C38_OneCoordinatorPerProcess ==
    /\ [](\A p \in Processes :
            /\ constructed[p] <= 1
            /\ \A q \in Queries :
                    (chat[q].process = p /\ chat[q].coord # 0) =>
                        chat[q].coord = coordinator[p])
    /\ [][ \A p \in Processes :
                coordinator[p] # 0 => coordinator'[p] = coordinator[p] ]_vars

\* Two requests served one after the other by the same process got the same
\* Coordinator, the only one the process constructed.
C38_Witness ==
    \E q, other \in Queries :
        /\ q # other
        /\ chat[q].process = chat[other].process
        /\ chat[q].coord # 0
        /\ chat[q].coord = chat[other].coord
        /\ constructed[chat[q].process] = 1

(***************************************************************************)
(* The lifecycle of a query, checked under LiveSpec                        *)
(***************************************************************************)

\* How far process_query has got: received, the roster counted, the Router
\* called, routed, the Specialist called, drafted, the Auditor called, and
\* the end.
PcRank ==
    [idle |-> 0, route |-> 1, routing |-> 2, draft |-> 3, drafting |-> 4,
     audit |-> 5, auditing |-> 6, done |-> 7, failed |-> 7]

Terminal(q) == pc[q] \in {"done", "failed"}

\* C28: a query goes forward only, from received to the no-agents answer or
\* through routed, drafted and audited, never back and never twice through
\* a state; provided every external call returns or fails it reaches an end,
\* which is a returned result or a raised failure and not both, and stays
\* there.
C28_QueryEndsOnce ==
    /\ [][ \A q \in Queries :
              /\ pc'[q] # pc[q] => PcRank[pc'[q]] > PcRank[pc[q]]
              /\ Terminal(q) => QueryState(q)' = QueryState(q)
          ]_vars
    /\ [](\A q \in Queries :
              /\ pc[q] = "done" <=> result[q].kind = "returned"
              /\ pc[q] = "failed" <=> result[q].kind = "raised")
    /\ \A q \in Queries : <>Terminal(q)

\* One query ended audited and the other, received after the last agent was
\* deleted, ended with the no-agents answer.
C28_Witness ==
    \E q, other \in Queries :
        /\ pc[q] = "done" /\ calls[q] = StageOrder
        /\ pc[other] = "done" /\ result[other] = Returned(NoAgentsResult)

====
